---- MODULE Spec2Model ----
(***************************************************************************)
(* Model of the logistics calculator (src/App.py) and of the feature        *)
(* definitions of its training script (src/modelo.py).                      *)
(*                                                                          *)
(* Numbers.  The program computes with Python floats; the model computes    *)
(* the same products exactly, over integers with fixed denominators:        *)
(*   probabilities      in hundredths        (0.6  is 60)                   *)
(*   time multipliers   in tenths            (1.5  is 15)                   *)
(*   cost multipliers   in tenths, the risk cost multiplier in hundredths   *)
(*                                           (1.30 is 130, 0.8 is 8)        *)
(*   base time          in fiftieths of hour (d/50 + 2 is d + 100)          *)
(*   base cost          in halves of a USD   (5 + 0.5 d + w is 10 + d + 2w) *)
(*   inventory ratio    in twentieths        (0.5  is 10, the slider step   *)
(*                                            0.05 is 1)                    *)
(* so tiempo_horas is in 1/50000 h and costo_usd in 1/20000 USD.            *)
(* Floating-point rounding is not modelled.                                 *)
(***************************************************************************)
EXTENDS Integers, Sequences, FiniteSets, TLC

VARIABLES
    artifact,    \* is modelo_retraso.pkl loadable by joblib.load right now
    cache,       \* the st.cache_resource entry of load_model
    modelo,      \* the module global `modelo` of the last script run
    loadCalls,   \* executions of load_model's body (joblib.load attempts)
    surfaced,    \* script runs that put the load error element on the page
    session,     \* the widgets' values (Streamlit session state, by key)
    page,        \* what the last script run rendered
    call,        \* a direct call of a function of App.py: its arguments
    out          \* ... and what it returned or raised

vars == <<artifact, cache, modelo, loadCalls, surfaced, session, page, call, out>>

\* Script runs with the load error on the page are counted up to this bound.
MaxSurfaced == 3
\* Executions of load_model's body are counted up to this bound.
MaxLoads == 2
\* Direct calls of the base estimators take distances 0..MaxDistArg and
\* weights 0..MaxPesoArg.
MaxDistArg == 60
MaxPesoArg == 12

None == "None"
RandomForest == "RandomForestClassifier"

-----------------------------------------------------------------------------
(* Business configuration                                                   *)

\* mutant: the time multipliers of economico and express exchanged
MODALIDADES_intercambiadas ==
    ( "economico" :> [tiempo |-> 7,  costo |-> 8] ) @@
    ( "estandar"  :> [tiempo |-> 10, costo |-> 10] ) @@
    ( "express"   :> [tiempo |-> 13, costo |-> 15] )

MODALIDADES ==
    ( "economico" :> [tiempo |-> 13, costo |-> 8] ) @@
    ( "estandar"  :> [tiempo |-> 10, costo |-> 10] ) @@
    ( "express"   :> [tiempo |-> 7,  costo |-> 15] )

\* dict order of MODALIDADES.keys()
MODALIDADES_keys == <<"economico", "estandar", "express">>

PERFILES ==
    ( "urgente"   :> [tiempo |-> 9,  costo |-> 12] ) @@
    ( "economico" :> [tiempo |-> 11, costo |-> 8] )

\* dict order of PERFILES.keys()
PERFILES_keys == <<"urgente", "economico">>

\* mutant: Temperature and Humidity exchanged in the column list
FEATURES_intercambiadas ==
    << "Distancia_KM", "Trafico_Score", "Riesgo_Clima", "Ratio_Inv",
       "Waiting_Time", "Humidity", "Temperature", "Traffic_Num" >>

FEATURES ==
    << "Distancia_KM", "Trafico_Score", "Riesgo_Clima", "Ratio_Inv",
       "Waiting_Time", "Temperature", "Humidity", "Traffic_Num" >>

\* src/modelo.py: the columns the classifier is fitted on, in order
variables ==
    << "Distancia_KM", "Trafico_Score", "Riesgo_Clima", "Ratio_Inv",
       "Waiting_Time", "Temperature", "Humidity", "Traffic_Num" >>

\* src/modelo.py: the two encodings of Traffic_Status used for training
traffic_scores == ( "Clear" :> 1 ) @@ ( "Detour" :> 2 ) @@ ( "Heavy" :> 3 )
Traffic_Num_map == ( "Clear" :> 0 ) @@ ( "Detour" :> 1 ) @@ ( "Heavy" :> 2 )

-----------------------------------------------------------------------------
(* Auxiliary functions                                                      *)

\* (distancia_km / 50.0) + 2.0, in fiftieths of an hour
calcular_tiempo_base(distancia_km) == distancia_km + 2 * 50

\* mutant: the weight term left out of the sum
calcular_costo_base_sin_peso(distancia_km, peso_kg) ==
    5 * 2 + distancia_km

\* 5.0 + 0.5 * distancia_km + 1.0 * peso_kg, in halves of a USD
calcular_costo_base(distancia_km, peso_kg) ==
    5 * 2 + distancia_km + 2 * peso_kg

\* the call calcular_costo_base(distancia): peso_kg takes its default 10.0
calcular_costo_base_default(distancia_km) ==
    calcular_costo_base(distancia_km, 10)

\* pd.DataFrame([datos_envio], columns=FEATURES): one row, the columns named
\* and ordered by FEATURES, each holding the dict's value under that name
\* (NaN, here -999, when the dict has no such key)
DataFrame(datos_envio, columns) ==
    [ i \in 1..Len(columns) |->
        [ name  |-> columns[i],
          value |-> IF columns[i] \in DOMAIN datos_envio
                    THEN datos_envio[columns[i]] ELSE -999 ] ]

\* mutant: the upper threshold compared with >= instead of >
riesgo_de_inclusivo(prob_retraso) ==
    IF prob_retraso >= 60 THEN [riesgo |-> "alto", tiempo |-> 15, costo |-> 130]
    ELSE IF prob_retraso > 40
         THEN [riesgo |-> "medio", tiempo |-> 12, costo |-> 115]
         ELSE [riesgo |-> "bajo", tiempo |-> 10, costo |-> 100]

\* the risk branch of predecir_envio: <<riesgo, time multiplier (tenths),
\* cost multiplier (hundredths)>>
riesgo_de(prob_retraso) ==
    IF prob_retraso > 60 THEN [riesgo |-> "alto", tiempo |-> 15, costo |-> 130]
    ELSE IF prob_retraso > 40
         THEN [riesgo |-> "medio", tiempo |-> 12, costo |-> 115]
         ELSE [riesgo |-> "bajo", tiempo |-> 10, costo |-> 100]

\* mutant: the modality multiplier assigned over the risk-adjusted value
\* (tiempo_estimado = tiempo_base * m, for *=)
predecir_envio_reemplaza(mod, datos_envio, modalidad, perfil, resp) ==
    IF mod = None
    THEN [kind |-> "AttributeError"]
    ELSE
      LET distancia == datos_envio["Distancia_KM"]
          r         == riesgo_de(resp)
      IN IF modalidad \notin DOMAIN MODALIDADES
         THEN [kind |-> "KeyError", key |-> modalidad]
         ELSE IF perfil \notin DOMAIN PERFILES
         THEN [kind |-> "KeyError", key |-> perfil]
         ELSE [ kind         |-> "ok",
                prob_retraso |-> resp,
                riesgo       |-> r.riesgo,
                tiempo_horas |-> calcular_tiempo_base(distancia) * 10
                                   * MODALIDADES[modalidad].tiempo
                                   * PERFILES[perfil].tiempo,
                costo_usd    |-> calcular_costo_base_default(distancia) * 100
                                   * MODALIDADES[modalidad].costo
                                   * PERFILES[perfil].costo ]

\* mutant: an unknown key looked up with a default (dict.get) of 1.0, 1.0
predecir_envio_por_defecto(mod, datos_envio, modalidad, perfil, resp) ==
    IF mod = None
    THEN [kind |-> "AttributeError"]
    ELSE
      LET distancia == datos_envio["Distancia_KM"]
          r         == riesgo_de(resp)
          m         == IF modalidad \in DOMAIN MODALIDADES
                       THEN MODALIDADES[modalidad]
                       ELSE [tiempo |-> 10, costo |-> 10]
          pf        == IF perfil \in DOMAIN PERFILES
                       THEN PERFILES[perfil]
                       ELSE [tiempo |-> 10, costo |-> 10]
      IN [ kind         |-> "ok",
           prob_retraso |-> resp,
           riesgo       |-> r.riesgo,
           tiempo_horas |-> calcular_tiempo_base(distancia) * r.tiempo
                              * m.tiempo * pf.tiempo,
           costo_usd    |-> calcular_costo_base_default(distancia) * r.costo
                              * m.costo * pf.costo ]

\* predecir_envio; `resp` is what modelo.predict_proba(df_input)[0][1] returns
\* for this row when modelo is a classifier (the classifier is opaque).
\* Raising is modelled as a result whose kind names the exception.
predecir_envio(mod, datos_envio, modalidad, perfil, resp) ==
    IF mod = None
    THEN [kind |-> "AttributeError"]
    ELSE
      LET prob_retraso == resp
          distancia    == datos_envio["Distancia_KM"]
          tiempo_base  == calcular_tiempo_base(distancia)
          costo_base   == calcular_costo_base_default(distancia)
          r            == riesgo_de(prob_retraso)
          tiempo_1     == tiempo_base * r.tiempo
          costo_1      == costo_base * r.costo
      IN IF modalidad \notin DOMAIN MODALIDADES
         THEN [kind |-> "KeyError", key |-> modalidad]
         ELSE IF perfil \notin DOMAIN PERFILES
         THEN [kind |-> "KeyError", key |-> perfil]
         ELSE [ kind         |-> "ok",
                prob_retraso |-> prob_retraso,
                riesgo       |-> r.riesgo,
                tiempo_horas |-> tiempo_1 * MODALIDADES[modalidad].tiempo
                                          * PERFILES[perfil].tiempo,
                costo_usd    |-> costo_1 * MODALIDADES[modalidad].costo
                                         * PERFILES[perfil].costo ]

-----------------------------------------------------------------------------
(* Model loading                                                            *)

EmptyCache == [filled |-> FALSE, value |-> None, messages |-> <<>>]

\* joblib.load(path) inside try/except: the classifier, or st.error and None
load_model_body(art) ==
    IF art THEN [value |-> RandomForest, messages |-> <<>>]
           ELSE [value |-> None, messages |-> <<"error">>]

\* @st.cache_resource load_model("modelo_retraso.pkl"): on a miss the body
\* runs and its return value is stored together with the elements it
\* rendered; on a hit the stored value is returned and the stored elements are
\* rendered again (st.cache_resource replays the static elements of a cached
\* call).  `executed` tells whether the body ran.
load_model(c, art) ==
    IF c.filled
    THEN [value |-> c.value, messages |-> c.messages, executed |-> FALSE,
          cache |-> c]
    ELSE LET b == load_model_body(art)
         IN [value |-> b.value, messages |-> b.messages, executed |-> TRUE,
             cache |-> [filled |-> TRUE, value |-> b.value,
                        messages |-> b.messages]]

-----------------------------------------------------------------------------
(* Tab 1: the quoting form                                                  *)

trafico_score(trafico) ==
    ( ( "Clear" :> 1 ) @@ ( "Detour" :> 2 ) @@ ( "Heavy" :> 3 ) )[trafico]

\* mutant: the zero-based code written one-based for Heavy
trafico_num_desfasado(trafico) ==
    ( ( "Clear" :> 0 ) @@ ( "Detour" :> 1 ) @@ ( "Heavy" :> 3 ) )[trafico]

trafico_num(trafico) ==
    ( ( "Clear" :> 0 ) @@ ( "Detour" :> 1 ) @@ ( "Heavy" :> 2 ) )[trafico]

riesgo_clima(temp, hum) == IF temp > 30 \/ hum > 80 THEN 1 ELSE 0

\* mutant: the button guarded by nothing (`if st.button(...)`)
truthy_siempre(mod) == TRUE

\* `if modelo and ...`: None is falsy, a fitted forest of 50 trees is truthy
truthy(mod) == mod # None

\* the dict built when the button was clicked
datos_envio_de(sess) ==
    [ Distancia_KM  |-> sess.distancia,
      Trafico_Score |-> trafico_score(sess.trafico),
      Riesgo_Clima  |-> riesgo_clima(sess.temp, sess.hum),
      Ratio_Inv     |-> sess.inv,
      Waiting_Time  |-> sess.espera,
      Temperature   |-> sess.temp,
      Humidity      |-> sess.hum,
      Traffic_Num   |-> trafico_num(sess.trafico) ]

\* `for modalidad in MODALIDADES.keys()`: one predecir_envio per modality,
\* all with the same datos_envio (the classifier is a deterministic function
\* of the row, so the three calls get the same resp)
resultados_de(mod, sess, resp) ==
    [ i \in 1..Len(MODALIDADES_keys) |->
        [ Modalidad |-> MODALIDADES_keys[i],
          out |-> predecir_envio(mod, datos_envio_de(sess),
                                 MODALIDADES_keys[i], sess.perfil, resp) ] ]

-----------------------------------------------------------------------------
(* Tab 2: alerts.  st.warning is "warning", st.error is "critical",         *)
(* st.success is "ok".                                                      *)

alerta_trafico(trafico_alert) ==
    IF trafico_alert = "Heavy" THEN "warning" ELSE "ok"

alerta_clima(temp_alert, hum_alert) ==
    IF (temp_alert > 30) \/ (hum_alert > 80) THEN "warning" ELSE "ok"

\* mutant: the inventory threshold compared with <= instead of <
alerta_inventario_inclusiva(inv_ratio_alert) ==
    IF inv_ratio_alert <= 10 THEN "critical" ELSE "ok"

alerta_inventario(inv_ratio_alert) ==
    IF inv_ratio_alert < 10 THEN "critical" ELSE "ok"

alerta_espera(waiting_alert) ==
    IF waiting_alert > 60 THEN "critical" ELSE "ok"

alertas_de(sess) ==
    [ trafico    |-> alerta_trafico(sess.trafico_alert),
      clima      |-> alerta_clima(sess.temp_alert, sess.hum_alert),
      inventario |-> alerta_inventario(sess.inv_alert),
      espera     |-> alerta_espera(sess.wait_alert) ]

-----------------------------------------------------------------------------
(* The session: widget defaults and the values a user may set               *)

WidgetDefaults ==
    [ distancia |-> 50, espera |-> 10, trafico |-> "Clear", temp |-> 25,
      hum |-> 60, inv |-> 20, perfil |-> PERFILES_keys[1],
      trafico_alert |-> "Clear", temp_alert |-> 25, hum_alert |-> 60,
      inv_alert |-> 20, wait_alert |-> 10 ]

\* a sample of each widget's range: its default and values at and beyond the
\* thresholds the script compares it with
WidgetVals ==
    [ distancia |-> {1, 50, 2000}, espera |-> {10, 240},
      trafico |-> {"Clear", "Detour", "Heavy"}, temp |-> {25, 30, 31},
      hum |-> {60, 80, 81}, inv |-> {1, 20},
      perfil |-> {"urgente", "economico"},
      trafico_alert |-> {"Clear", "Detour", "Heavy"},
      temp_alert |-> {25, 30, 31}, hum_alert |-> {60, 80, 81},
      inv_alert |-> {9, 10, 20}, wait_alert |-> {10, 60, 65} ]

\* the widgets of each tab, by key
ComparadorKeys ==
    {"distancia", "espera", "trafico", "temp", "hum", "inv", "perfil"}
AlertasKeys ==
    {"trafico_alert", "temp_alert", "hum_alert", "inv_alert", "wait_alert"}

\* the probabilities the loaded classifier may answer, in hundredths
ProbVals == {0, 40, 41, 60, 61, 75}

BlankPage ==
    [ rendered |-> FALSE, error |-> FALSE, button |-> FALSE,
      datos_envio |-> <<>>, clf_calls |-> <<>>, resultados |-> <<>>,
      exception |-> <<>>, alertas |-> <<>> ]

NoCall == [ fn |-> "none", modelo |-> None, distancia |-> 0, peso |-> <<>>,
            resp |-> 0, modalidad |-> "estandar", perfil |-> "urgente" ]

-----------------------------------------------------------------------------
(* One run of the script, top to bottom                                     *)

ScriptRun(sess, clicked, resp) ==
    LET lm      == load_model(cache, artifact)
        m       == lm.value
        error   == lm.messages # <<>>
        \* `modelo and st.button(...)`: the button is rendered only when
        \* modelo is truthy
        button  == truthy(m)
        calc    == button /\ clicked
        res     == IF calc THEN resultados_de(m, sess, resp) ELSE <<>>
        raised  == { i \in DOMAIN res : res[i].out.kind # "ok" }
        \* an exception in the loop ends the script run: no table, no tab 2
        exc     == IF raised = {} THEN <<>>
                   ELSE << res[CHOOSE i \in raised :
                                 \A j \in raised : i <= j].out.kind >>
        ncalls  == IF raised = {} THEN Len(res)
                   ELSE CHOOSE i \in raised : \A j \in raised : i <= j
    IN /\ lm.executed => loadCalls < MaxLoads
       /\ error => surfaced < MaxSurfaced
       /\ cache' = lm.cache
       /\ modelo' = m
       /\ loadCalls' = IF lm.executed THEN loadCalls + 1 ELSE loadCalls
       /\ surfaced' = IF error THEN surfaced + 1 ELSE surfaced
       /\ session' = sess
       /\ page' =
            [ rendered    |-> TRUE,
              error       |-> error,
              button      |-> button,
              datos_envio |-> IF calc THEN <<datos_envio_de(sess)>> ELSE <<>>,
              clf_calls   |-> IF calc /\ truthy(m)
                              THEN [ i \in 1..ncalls |->
                                     DataFrame(datos_envio_de(sess), FEATURES) ]
                              ELSE <<>>,
              resultados  |-> IF exc = <<>> THEN res ELSE <<>>,
              exception   |-> exc,
              alertas     |-> IF exc = <<>> THEN <<alertas_de(sess)>>
                              ELSE <<>> ]
       /\ UNCHANGED <<artifact, call, out>>

\* the browser opens the page: the first run, with every widget at its default
PrimeraCarga ==
    /\ ~page.rendered
    /\ ScriptRun(session, FALSE, 0)

\* the user changes one widget of tab 1: the script reruns with the new value
CambiarComparador ==
    /\ page.rendered
    /\ \E k \in ComparadorKeys :
         \E v \in WidgetVals[k] \ {session[k]} :
            ScriptRun([session EXCEPT ![k] = v], FALSE, 0)

\* the user changes one widget of tab 2 (rendered unless the run was cut short)
CambiarAlertas ==
    /\ page.alertas # <<>>
    /\ \E k \in AlertasKeys :
         \E v \in WidgetVals[k] \ {session[k]} :
            ScriptRun([session EXCEPT ![k] = v], FALSE, 0)

\* the user clicks "Calcular opciones" (only a rendered button can be clicked)
Calcular ==
    /\ page.button
    /\ \E resp \in ProbVals : ScriptRun(session, TRUE, resp)

\* the environment: the model file appears, or disappears
CambiarArtefacto ==
    /\ artifact' = ~artifact
    /\ UNCHANGED <<cache, modelo, loadCalls, surfaced, session, page, call, out>>

Init ==
    /\ artifact \in BOOLEAN
    /\ cache = EmptyCache
    /\ modelo = None
    /\ loadCalls = 0
    /\ surfaced = 0
    /\ session = WidgetDefaults
    /\ page = BlankPage
    /\ call = NoCall
    /\ out = <<>>

\* A session in which the user works in tab 1 (tab 2 is rendered on every
\* run, its widgets at their defaults).
Next == PrimeraCarga \/ CambiarComparador \/ Calcular \/ CambiarArtefacto

Spec == Init /\ [][Next]_vars

\* A session in which the user works in tab 2 (tab 1 is rendered on every
\* run, its widgets at their defaults).
NextAlertas == PrimeraCarga \/ CambiarAlertas \/ CambiarArtefacto

SpecAlertas == Init /\ [][NextAlertas]_vars

-----------------------------------------------------------------------------
(* Direct calls of the functions of App.py, with arguments of the caller's  *)
(* choice (the classifier mocked: any probability, or no classifier)        *)

\* st.number_input("Distancia aprox. (km)", 1, 2000, 50)
MinDistancia == 1
MaxDistancia == 2000

DistArgs == {0, MinDistancia, 50, MaxDistancia}
ModalidadArgs == {"economico", "estandar", "express", "overnight"}
PerfilArgs == {"urgente", "economico", "vip"}

PredecirCalls ==
    [ fn : {"predecir_envio"}, modelo : {None, RandomForest},
      distancia : DistArgs, peso : {<<>>}, resp : 0..100,
      modalidad : ModalidadArgs, perfil : PerfilArgs ]

TiempoCalls ==
    [ fn : {"calcular_tiempo_base"}, modelo : {None},
      distancia : 0..MaxDistArg, peso : {<<>>}, resp : {0},
      modalidad : {"estandar"}, perfil : {"urgente"} ]

\* peso <<>> is the call that omits peso_kg
CostoCalls ==
    [ fn : {"calcular_costo_base"}, modelo : {None},
      distancia : 0..MaxDistArg,
      peso : {<<>>} \cup { <<w>> : w \in 0..MaxPesoArg }, resp : {0},
      modalidad : {"estandar"}, perfil : {"urgente"} ]

\* the dict of a direct call: the form's defaults but for the distance
datos_de_llamada(c) ==
    datos_envio_de([WidgetDefaults EXCEPT !.distancia = c.distancia])

LlamarPredecir ==
    /\ call.fn = "predecir_envio" /\ out = <<>>
    /\ out' = << predecir_envio(call.modelo, datos_de_llamada(call),
                                call.modalidad, call.perfil, call.resp) >>
    /\ UNCHANGED <<artifact, cache, modelo, loadCalls, surfaced, session,
                   page, call>>

LlamarTiempoBase ==
    /\ call.fn = "calcular_tiempo_base" /\ out = <<>>
    /\ out' = << [kind |-> "ok",
                  value |-> calcular_tiempo_base(call.distancia)] >>
    /\ UNCHANGED <<artifact, cache, modelo, loadCalls, surfaced, session,
                   page, call>>

LlamarCostoBase ==
    /\ call.fn = "calcular_costo_base" /\ out = <<>>
    /\ out' = << [kind |-> "ok",
                  value |-> IF call.peso = <<>>
                            THEN calcular_costo_base_default(call.distancia)
                            ELSE calcular_costo_base(call.distancia,
                                                     call.peso[1])] >>
    /\ UNCHANGED <<artifact, cache, modelo, loadCalls, surfaced, session,
                   page, call>>

InitFn ==
    /\ artifact = TRUE
    /\ cache = EmptyCache
    /\ modelo = None
    /\ loadCalls = 0
    /\ surfaced = 0
    /\ session = WidgetDefaults
    /\ page = BlankPage
    /\ call \in PredecirCalls \cup TiempoCalls \cup CostoCalls
    /\ out = <<>>

NextFn == LlamarPredecir \/ LlamarTiempoBase \/ LlamarCostoBase

SpecFn == InitFn /\ [][NextFn]_vars

-----------------------------------------------------------------------------
(* The registered sets and multipliers as the specification states them     *)
(* (same units as above), against which the code's results are compared     *)

RegisteredModality ==
    ( "economico" :> [time |-> 13, cost |-> 8] ) @@
    ( "estandar"  :> [time |-> 10, cost |-> 10] ) @@
    ( "express"   :> [time |-> 7,  cost |-> 15] )

RegisteredProfile ==
    ( "urgente"   :> [time |-> 9,  cost |-> 12] ) @@
    ( "economico" :> [time |-> 11, cost |-> 8] )

RiskTier(p) ==
    IF p > 60 THEN "high" ELSE IF p > 40 THEN "medium" ELSE "low"

RiskMult ==
    [ high   |-> [time |-> 15, cost |-> 130],
      medium |-> [time |-> 12, cost |-> 115],
      low    |-> [time |-> 10, cost |-> 100] ]

TierName == [ high |-> "alto", medium |-> "medio", low |-> "bajo" ]

\* d/50 + 2 in fiftieths of an hour; 5 + 0.5 d + w in halves of a USD
BaseTimeHours(d) == d + 100
BaseCostUsd(d, w) == 10 + d + 2 * w

Returned == call.fn = "predecir_envio" /\ out # <<>>

-----------------------------------------------------------------------------
(* Claims about predecir_envio and the base estimators, under SpecFn        *)

\* C1: for every registered (modality, profile) pair, every distance and
\* every probability p, the quote predecir_envio returns has
\* tiempo_horas = BaseTimeHours(d) * riskTimeMult(p) * modality.time *
\* profile.time and costo_usd = BaseCostUsd(d, 10) * riskCostMult(p) *
\* modality.cost * profile.cost, the risk multipliers being (1.5, 1.30),
\* (1.2, 1.15), (1.0, 1.0); d = 50, p = 0.75, express, urgent gives 2.835 h
\* (141750/50000) and 93.6 USD (1872000/20000).
C1_QuoteIsProduct ==
    ( /\ Returned
      /\ call.modelo # None
      /\ call.modalidad \in DOMAIN RegisteredModality
      /\ call.perfil \in DOMAIN RegisteredProfile )
    => LET q  == out[1]
           rm == RiskMult[RiskTier(call.resp)]
           mm == RegisteredModality[call.modalidad]
           pm == RegisteredProfile[call.perfil]
       IN /\ q.kind = "ok"
          /\ q.tiempo_horas =
                BaseTimeHours(call.distancia) * rm.time * mm.time * pm.time
          /\ q.costo_usd =
                BaseCostUsd(call.distancia, 10) * rm.cost * mm.cost * pm.cost
          /\ ( /\ call.distancia = 50 /\ call.resp = 75
               /\ call.modalidad = "express" /\ call.perfil = "urgente" )
             => /\ q.tiempo_horas = 141750
                /\ q.costo_usd = 1872000

C1_Witness ==
    /\ Returned
    /\ call.modelo = RandomForest
    /\ call.distancia = 50 /\ call.resp = 75
    /\ call.modalidad = "express" /\ call.perfil = "urgente"
    /\ out[1].kind = "ok"
    /\ out[1].riesgo = "alto"
    /\ out[1].tiempo_horas = 141750

\* C2: the risk tier of a returned quote is decided by the probability p
\* alone, with the two breakpoints 0.6 and 0.4: p > 0.6 is high,
\* 0.4 < p <= 0.6 is medium, p <= 0.4 is low; p = 0.6 is medium, p = 0.4 is
\* low, p = 0.61 is high, p = 0.0 is low.
C2_TierByProbabilityAlone ==
    ( Returned /\ out[1].kind = "ok" )
    => /\ out[1].prob_retraso = call.resp
       /\ out[1].riesgo = TierName[RiskTier(call.resp)]
       /\ call.resp = 60 => out[1].riesgo = "medio"
       /\ call.resp = 40 => out[1].riesgo = "bajo"
       /\ call.resp = 61 => out[1].riesgo = "alto"
       /\ call.resp = 0  => out[1].riesgo = "bajo"

C2_Witness ==
    /\ Returned
    /\ call.resp = 60 /\ call.distancia = MaxDistancia
    /\ call.modalidad = "express" /\ call.perfil = "economico"
    /\ out[1].kind = "ok"
    /\ out[1].riesgo = "medio"

\* C4: a call whose modality key or profile key is not registered returns no
\* quote, for any such key and never with default multipliers in its place;
\* with a classifier it raises KeyError on the unknown key (the modality is
\* looked up first), and without one the AttributeError of C3 comes first.
C4_UnknownKeyRaises ==
    ( /\ Returned
      /\ \/ call.modalidad \notin DOMAIN RegisteredModality
         \/ call.perfil \notin DOMAIN RegisteredProfile )
    => /\ out[1].kind # "ok"
       /\ "tiempo_horas" \notin DOMAIN out[1]
       /\ "costo_usd" \notin DOMAIN out[1]
       /\ call.modelo # None =>
            /\ out[1].kind = "KeyError"
            /\ out[1].key = IF call.modalidad \notin DOMAIN RegisteredModality
                            THEN call.modalidad ELSE call.perfil

C4_Witness ==
    /\ Returned
    /\ call.modelo = RandomForest
    /\ call.modalidad = "overnight" /\ call.perfil = "urgente"
    /\ out[1].kind = "KeyError"
    /\ out[1].key = "overnight"

\* C7: for integer distance >= 0 and weight >= 0, calcular_tiempo_base(d) is
\* d/50 + 2, strictly increasing in d and 2.0 at d = 0;
\* calcular_costo_base(d, w) is 5 + 0.5 d + w, strictly increasing in d for
\* fixed w and in w for fixed d, 5.0 at (0, 0), the weight 10.0 when omitted;
\* both return a value for every such input.
C7_BaseEstimators ==
    /\ ( call.fn = "calcular_tiempo_base" /\ out # <<>> )
       => /\ out[1].kind = "ok"
          /\ out[1].value = BaseTimeHours(call.distancia)
          /\ call.distancia = 0 => out[1].value = 100
          /\ \A e \in 0..MaxDistArg :
                e < call.distancia => calcular_tiempo_base(e) < out[1].value
    /\ ( call.fn = "calcular_costo_base" /\ out # <<>> )
       => LET w == IF call.peso = <<>> THEN 10 ELSE call.peso[1]
          IN /\ out[1].kind = "ok"
             /\ out[1].value = BaseCostUsd(call.distancia, w)
             /\ ( call.distancia = 0 /\ w = 0 ) => out[1].value = 10
             /\ \A e \in 0..MaxDistArg :
                   e < call.distancia
                   => calcular_costo_base(e, w) < out[1].value
             /\ \A v \in 0..MaxPesoArg :
                   v < w => calcular_costo_base(call.distancia, v)
                              < out[1].value

C7_Witness ==
    /\ call.fn = "calcular_costo_base" /\ out # <<>>
    /\ call.distancia = 50 /\ call.peso = <<>>
    /\ out[1].value = 80

-----------------------------------------------------------------------------
(* Claims about the running application, under Spec                         *)

\* C3: when modelo is None, no quote is produced for any modality: the script
\* run renders neither the button nor a table and calls the classifier for no
\* row, the page carries the load error, and a call of predecir_envio with
\* modelo None raises (AttributeError, not the KeyError of an unknown key)
\* for every modality and profile, so it returns no quote either.
C3_NoQuoteWithoutModel ==
    ( page.rendered /\ modelo = None )
    => /\ ~page.button
       /\ page.resultados = <<>>
       /\ page.datos_envio = <<>>
       /\ page.clf_calls = <<>>
       /\ page.exception = <<>>
       /\ page.error
       /\ \A m \in ModalidadArgs, pf \in PerfilArgs, r \in ProbVals :
            predecir_envio(None, datos_envio_de(session), m, pf, r)
              = [kind |-> "AttributeError"]

C3_Witness ==
    /\ page.rendered
    /\ modelo = None
    /\ artifact
    /\ session.distancia = MaxDistancia
    /\ page.error

\* C5: over any sequence of script runs in one process the model load is
\* attempted at most once and its outcome reused; a failed load stays failed
\* (no later run obtains a quote), no run ends in an exception, and the
\* failure is surfaced once, not on every run.
\* The code keeps all of it but the last: the st.error element of the cached
\* call is rendered again on every run that hits the cache.
C5_LoadOnceSurfacedOnce ==
    /\ loadCalls <= 1
    /\ cache.filled => modelo = cache.value
    /\ ( cache.filled /\ cache.value = None ) => page.resultados = <<>>
    /\ page.exception = <<>>
    /\ surfaced <= 1

\* C8: every row the script passes to the classifier has the eight columns
\* Distancia_KM, Trafico_Score, Riesgo_Clima, Ratio_Inv, Waiting_Time,
\* Temperature, Humidity, Traffic_Num in that order, which is the order of
\* the training columns, and each column holds the value of the like-named
\* field of the request, the form's fields being the widgets' values.
C8_FeatureOrder ==
    \A n \in DOMAIN page.clf_calls :
       LET row == page.clf_calls[n]
           d   == page.datos_envio[1]
       IN /\ Len(row) = 8
          /\ Len(variables) = 8
          /\ \A i \in 1..8 :
                /\ row[i].name = variables[i]
                /\ row[i].value = d[variables[i]]
          /\ row[1].name = "Distancia_KM"  /\ row[1].value = session.distancia
          /\ row[2].name = "Trafico_Score"
          /\ row[3].name = "Riesgo_Clima"
          /\ row[4].name = "Ratio_Inv"     /\ row[4].value = session.inv
          /\ row[5].name = "Waiting_Time"  /\ row[5].value = session.espera
          /\ row[6].name = "Temperature"   /\ row[6].value = session.temp
          /\ row[7].name = "Humidity"      /\ row[7].value = session.hum
          /\ row[8].name = "Traffic_Num"

C8_Witness ==
    /\ Len(page.clf_calls) = 3
    /\ session.temp = 31 /\ session.hum = 60 /\ session.espera = 240
    /\ page.clf_calls[3][6].value = 31
    /\ page.clf_calls[3][7].value = 60

\* C9: in every feature record built for a quoting request Trafico_Score and
\* Traffic_Num encode the traffic category selected: Clear (1, 0),
\* Detour (2, 1), Heavy (3, 2), so Trafico_Score = Traffic_Num + 1, and these
\* are the encodings of the training script.
C9_TrafficEncodings ==
    page.datos_envio # <<>>
    => LET d == page.datos_envio[1]
           t == session.trafico
       IN /\ d.Trafico_Score = d.Traffic_Num + 1
          /\ t = "Clear"  => ( d.Trafico_Score = 1 /\ d.Traffic_Num = 0 )
          /\ t = "Detour" => ( d.Trafico_Score = 2 /\ d.Traffic_Num = 1 )
          /\ t = "Heavy"  => ( d.Trafico_Score = 3 /\ d.Traffic_Num = 2 )
          /\ d.Trafico_Score = traffic_scores[t]
          /\ d.Traffic_Num = Traffic_Num_map[t]

C9_Witness ==
    /\ page.datos_envio # <<>>
    /\ session.trafico = "Heavy"
    /\ page.datos_envio[1].Trafico_Score = 3
    /\ page.datos_envio[1].Traffic_Num = 2

\* C10: the three quotes of one request (same features, probability and
\* profile) are ordered: hours(express) < hours(standard) < hours(economic)
\* and cost(economic) < cost(standard) < cost(express); the standard quote is
\* the risk- and profile-adjusted value unchanged, and the three carry the
\* same delay probability and risk tier.
C10_ModalityOrder ==
    page.resultados # <<>>
    => LET r   == page.resultados
           eco == r[1].out
           std == r[2].out
           exp == r[3].out
           rm  == RiskMult[RiskTier(std.prob_retraso)]
           pm  == RegisteredProfile[session.perfil]
       IN /\ Len(r) = 3
          /\ r[1].Modalidad = "economico"
          /\ r[2].Modalidad = "estandar"
          /\ r[3].Modalidad = "express"
          /\ \A i \in 1..3 : r[i].out.kind = "ok"
          /\ exp.tiempo_horas < std.tiempo_horas
          /\ std.tiempo_horas < eco.tiempo_horas
          /\ eco.costo_usd < std.costo_usd
          /\ std.costo_usd < exp.costo_usd
          \* x 1.0 is x 10 in tenths
          /\ std.tiempo_horas =
                BaseTimeHours(session.distancia) * rm.time * pm.time * 10
          /\ std.costo_usd =
                BaseCostUsd(session.distancia, 10) * rm.cost * pm.cost * 10
          /\ \A i \in 1..3 :
                /\ r[i].out.prob_retraso = std.prob_retraso
                /\ r[i].out.riesgo = std.riesgo
          \* and so for whatever probability the classifier answers
          /\ \A p \in 0..100 :
                LET q == resultados_de(modelo, session, p)
                IN /\ q[3].out.tiempo_horas < q[2].out.tiempo_horas
                   /\ q[2].out.tiempo_horas < q[1].out.tiempo_horas
                   /\ q[1].out.costo_usd < q[2].out.costo_usd
                   /\ q[2].out.costo_usd < q[3].out.costo_usd

C10_Witness ==
    /\ Len(page.resultados) = 3
    /\ session.distancia = MinDistancia
    /\ session.perfil = "economico"
    /\ page.resultados[2].out.riesgo = "medio"
    /\ page.resultados[3].out.tiempo_horas < page.resultados[1].out.tiempo_horas

-----------------------------------------------------------------------------
(* Claim about the alerts, under SpecAlertas                                *)

\* C6: every run that reaches tab 2 reports four statuses, each decided by its
\* own input alone: traffic is warning iff the traffic is Heavy; weather is
\* warning iff temperature > 30 or humidity > 80; inventory is critical iff
\* the ratio < 0.5; waiting is critical iff the wait > 60; otherwise ok, so
\* the values 30, 80, 0.5 and 60 themselves are ok.
C6_AlertsIndependent ==
    page.rendered
    => /\ Len(page.alertas) = 1
       /\ DOMAIN page.alertas[1] =
             {"trafico", "clima", "inventario", "espera"}
       /\ LET a == page.alertas[1]
          IN /\ a.trafico =
                  IF session.trafico_alert = "Heavy" THEN "warning" ELSE "ok"
             /\ a.clima =
                  IF session.temp_alert > 30 \/ session.hum_alert > 80
                  THEN "warning" ELSE "ok"
             /\ a.inventario =
                  IF session.inv_alert < 10 THEN "critical" ELSE "ok"
             /\ a.espera =
                  IF session.wait_alert > 60 THEN "critical" ELSE "ok"
             /\ ( session.temp_alert = 30 /\ session.hum_alert = 80 )
                => a.clima = "ok"
             /\ session.inv_alert = 10 => a.inventario = "ok"
             /\ session.wait_alert = 60 => a.espera = "ok"

C6_Witness ==
    /\ page.rendered
    /\ session.trafico_alert = "Clear"
    /\ session.temp_alert = 30 /\ session.hum_alert = 80
    /\ session.inv_alert = 9 /\ session.wait_alert = 65
    /\ page.alertas[1] = [ trafico |-> "ok", clima |-> "ok",
                           inventario |-> "critical", espera |-> "critical" ]

====
